---- MODULE Spec2Model ----
(***************************************************************************)
(* A model of conv (include/conv/conv.h): the conversions conv::to<T> and  *)
(* the sequence parser conv::parse.                                        *)
(*                                                                         *)
(* A text (std::string) is a sequence of characters, a character a         *)
(* one-character string; the vertical tab, which TLA+ strings cannot       *)
(* escape, is written "\\v".  Indices and lengths are those of C++: they    *)
(* start at 0 and are size_t values.  A call that runs into a failed       *)
(* assert() returns Abort, any other call Ret(value).                      *)
(***************************************************************************)
EXTENDS Integers, Sequences, FiniteSets, TLC

VARIABLES
    str,    \* the text argument of the call
    opt,    \* the parse_options argument of the call
    val,    \* the value argument of the call (a scalar, pair, vector or map)
    pc,     \* "ready" before the call, the name of the call after it
    out     \* what the call returned

vars == <<str, opt, val, pc, out>>

Abort == [aborted |-> TRUE]
Ret(v) == [aborted |-> FALSE, value |-> v]
None == [kind |-> "none"]

Range(s) == {s[i] : i \in 1..Len(s)}
Min(a, b) == IF a < b THEN a ELSE b

----------------------------------------------------------------------------
(* std::string as conv.h uses it *)

\* internal::space<char>()
space == {" ", "\t", "\\v", "\r", "\n"}

\* internal::hex<char>()
hex == <<"0", "x">>

\* std::string::npos, the greatest size_t. The build's size_t has 64 bits; the
\* model keeps its wrap-around at 16 bits, which gives the same results for
\* every text shorter than npos.
npos == 65535

\* unsigned arithmetic on size_t
size_t(n) == n % (npos + 1)

RECURSIVE find_first_not_of(_, _, _)
find_first_not_of(s, chars, pos) ==
    IF pos >= Len(s) THEN npos
    ELSE IF s[pos + 1] \notin chars THEN pos
    ELSE find_first_not_of(s, chars, pos + 1)

RECURSIVE find_first_of(_, _, _)
find_first_of(s, chars, pos) ==
    IF pos >= Len(s) THEN npos
    ELSE IF s[pos + 1] \in chars THEN pos
    ELSE find_first_of(s, chars, pos + 1)

RECURSIVE ScanBack(_, _, _)
ScanBack(s, chars, i) ==
    IF i < 0 THEN npos
    ELSE IF s[i + 1] \notin chars THEN i
    ELSE ScanBack(s, chars, i - 1)

\* the search starts at min(pos, size() - 1) and goes down
find_last_not_of(s, chars, pos) ==
    IF Len(s) = 0 THEN npos ELSE ScanBack(s, chars, Min(pos, Len(s) - 1))

\* s.substr(pos, n) for pos <= s.size(): at most n characters from pos
substr(s, pos, n) == SubSeq(s, pos + 1, pos + Min(n, Len(s) - pos))

----------------------------------------------------------------------------
(* operator>>(std::istream&, int&), as from_string uses it *)

DecDigits == <<"0", "1", "2", "3", "4", "5", "6", "7", "8", "9">>
LowerHex == <<"a", "b", "c", "d", "e", "f">>
UpperHex == <<"A", "B", "C", "D", "E", "F">>

IndexOf(seq, c) == CHOOSE i \in 1..Len(seq) : seq[i] = c

\* the characters that are digits in the base
DigitChars(base) ==
    IF base = 16
    THEN Range(DecDigits) \cup Range(LowerHex) \cup Range(UpperHex)
    ELSE Range(DecDigits)

DigitValue(c) ==
    IF c \in Range(DecDigits) THEN IndexOf(DecDigits, c) - 1
    ELSE IF c \in Range(LowerHex) THEN IndexOf(LowerHex, c) + 9
    ELSE IndexOf(UpperHex, c) + 9

\* what the stream skips before a number (std::skipws, the "C" locale's isspace)
StreamSpace == space \cup {"\f"}

\* the digits the stream accumulates from s: the longest prefix of digits
RECURSIVE DigitRun(_, _)
DigitRun(s, base) ==
    IF s = <<>> \/ Head(s) \notin DigitChars(base) THEN <<>>
    ELSE <<Head(s)>> \o DigitRun(Tail(s), base)

\* the number a run of digits denotes, most significant digit first
RECURSIVE Accumulate(_, _, _)
Accumulate(digits, base, acc) ==
    IF digits = <<>> THEN acc
    ELSE Accumulate(Tail(digits), base, acc * base + DigitValue(Head(digits)))

\* in >> value_ (base 10) and in >> std::hex >> value_ (base 16): leading
\* stream whitespace, an optional sign, for base 16 an optional 0x or 0X, then
\* digits up to the first character that is none. With no digit the extraction
\* fails and value_ is what the failure leaves in it: 0 since C++11, before
\* that the member's uninitialized value, here indet. No text of the model
\* denotes a number outside int, so the clamping of such numbers is not modelled.
extract(text, base, indet) ==
    LET start == find_first_not_of(text, StreamSpace, 0)
        s0 == IF start = npos THEN <<>> ELSE substr(text, start, npos)
        signed == s0 # <<>> /\ Head(s0) \in {"+", "-"}
        s1 == IF signed THEN Tail(s0) ELSE s0
        prefixed == /\ base = 16
                    /\ Len(s1) >= 2
                    /\ s1[1] = "0"
                    /\ s1[2] \in {"x", "X"}
        s2 == IF prefixed THEN substr(s1, 2, npos) ELSE s1
        digits == DigitRun(s2, base)
        n == Accumulate(digits, base, 0)
    IN  IF digits = <<>> THEN indet
        ELSE IF signed /\ Head(s0) = "-" THEN 0 - n ELSE n

----------------------------------------------------------------------------
(* conv::to<T> from a text *)

\* from_string without the test for the 0x prefix: every text is read in base 10
from_string_decimal_only(s, indet) ==
    LET first == find_first_not_of(s, space, 0)
        last == find_last_not_of(s, space, npos)
        trimmed == substr(s, first, size_t(last - first + 1))
    IN  IF first = npos THEN Abort
        ELSE IF last = npos THEN Abort
        ELSE IF find_first_of(trimmed, space, 0) # npos THEN Abort
        ELSE Ret(extract(trimmed, 10, indet))

\* from_string without the assertion on the trimmed text: whitespace between
\* two other characters ends the number
from_string_inner_space_allowed(s, indet) ==
    LET first == find_first_not_of(s, space, 0)
        last == find_last_not_of(s, space, npos)
        trimmed == substr(s, first, size_t(last - first + 1))
    IN  IF first = npos THEN Abort
        ELSE IF last = npos THEN Abort
        ELSE IF Len(trimmed) >= 2 /\ substr(trimmed, 0, 2) = hex
             THEN Ret(extract(trimmed, 16, indet))
             ELSE Ret(extract(trimmed, 10, indet))

\* to<T>::from_string for T = int
from_string(s, indet) ==
    LET first == find_first_not_of(s, space, 0)
        last == find_last_not_of(s, space, npos)
        trimmed == substr(s, first, size_t(last - first + 1))
    IN  IF first = npos THEN Abort
        ELSE IF last = npos THEN Abort
        ELSE IF find_first_of(trimmed, space, 0) # npos THEN Abort
        ELSE IF Len(trimmed) >= 2 /\ substr(trimmed, 0, 2) = hex
             THEN Ret(extract(trimmed, 16, indet))
             ELSE Ret(extract(trimmed, 10, indet))

\* to<int>(const std::string&)
to_int(s, indet) == from_string(s, indet)

\* a narrowing that saturates at the bounds of the type instead of wrapping
static_cast_int8_saturating(n, isSigned) ==
    LET lo == IF isSigned THEN -128 ELSE 0
        hi == IF isSigned THEN 127 ELSE 255
    IN  IF n < lo THEN lo ELSE IF n > hi THEN hi ELSE n

\* static_cast to an 8-bit type: the value modulo 256, two's complement if signed
static_cast_int8(n, isSigned) ==
    LET m == n % 256
    IN  IF isSigned /\ m >= 128 THEN m - 256 ELSE m

\* to<signed char>(const std::string&)
to_schar(s, indet) ==
    LET i == to_int(s, indet)
    IN  IF i.aborted THEN Abort ELSE Ret(static_cast_int8(i.value, TRUE))

\* to<unsigned char>(const std::string&)
to_uchar(s, indet) ==
    LET i == to_int(s, indet)
    IN  IF i.aborted THEN Abort ELSE Ret(static_cast_int8(i.value, FALSE))

\* to<char>(const std::string&); whether char is signed is the build's choice
to_char(s, indet, charIsSigned) ==
    LET i == to_int(s, indet)
    IN  IF i.aborted THEN Abort ELSE Ret(static_cast_int8(i.value, charIsSigned))

\* to<bool> that trims the text first: whitespace alone gives false
to_bool_trimmed(s) == Ret(find_first_not_of(s, space, 0) # npos)

\* to<bool>(const std::string&)
to_bool(s) == Ret(s # <<>>)

----------------------------------------------------------------------------
(* The calls of conv::to<T> on a text *)

\* the greatest length of a text handed to conv::to<T>
MaxText == 4

\* what a failed extraction may leave in value_
Indeterminate == {0, 7}

ToChars == {" ", "\t", "0", "1", "x", "F", "-"}

RECURSIVE TextsOver(_, _)
TextsOver(chars, n) ==
    IF n = 0 THEN {<<>>}
    ELSE LET shorter == TextsOver(chars, n - 1)
         IN  shorter \cup {Append(t, c) : t \in {u \in shorter : Len(u) = n - 1}, c \in chars}

\* the texts of the repository's tests (test/conv_test.cc, string -> int ... bool)
TestTexts ==
    { <<"1", "2", "3", "4">>,
      <<" ", " ", "1", "2", "3", "4">>,
      <<"1", "2", "3", "4", " ", " ">>,
      <<" ", " ", "1", "2", "3", "4", " ", " ">>,
      <<"0", "0", "1", "2", "3", "4">>,
      <<"0", "0", "0", "0">>,
      <<"0", "x", "F", "F">>,
      <<"0", "x", "0", "0", "0", "0", "0", "0", "F", "F">>,
      <<"1">>,
      <<>>,
      <<" ", " ">>,
      <<"t", "r", "u", "e">>,
      <<"f", "a", "l", "s", "e">> }

\* texts with each of the other whitespace characters around a literal
SpaceTexts ==
    { <<w, "1", "0">> : w \in space } \cup { <<"0", "x", "1", w>> : w \in space }
        \cup { <<w, "\f", "1">> : w \in space } \cup { <<"1", w, "0">> : w \in space }

ToTexts == TextsOver(ToChars, MaxText) \cup TestTexts \cup SpaceTexts

ToInit ==
    /\ str \in ToTexts
    /\ opt = None
    /\ val = None
    /\ pc = "ready"
    /\ out = None

ToInt ==
    /\ pc = "ready"
    /\ \E indet \in Indeterminate : out' = to_int(str, indet)
    /\ pc' = "to_int"
    /\ UNCHANGED <<str, opt, val>>

ToChar ==
    /\ pc = "ready"
    /\ \E indet \in Indeterminate, charIsSigned \in BOOLEAN :
           out' = to_char(str, indet, charIsSigned)
    /\ pc' = "to_char"
    /\ UNCHANGED <<str, opt, val>>

ToSChar ==
    /\ pc = "ready"
    /\ \E indet \in Indeterminate : out' = to_schar(str, indet)
    /\ pc' = "to_schar"
    /\ UNCHANGED <<str, opt, val>>

ToUChar ==
    /\ pc = "ready"
    /\ \E indet \in Indeterminate : out' = to_uchar(str, indet)
    /\ pc' = "to_uchar"
    /\ UNCHANGED <<str, opt, val>>

ToBool ==
    /\ pc = "ready"
    /\ out' = to_bool(str)
    /\ pc' = "to_bool"
    /\ UNCHANGED <<str, opt, val>>

ToNext == ToInt \/ ToChar \/ ToSChar \/ ToUChar \/ ToBool

SpecTo == ToInit /\ [][ToNext]_vars

----------------------------------------------------------------------------
(* conv::parse *)

\* parse_options(): the three markers
parse_options == [lbracket |-> <<"[">>, rbracket |-> <<"]">>, comma |-> <<",">>]

\* conv::lbracket(s), conv::rbracket(s), conv::comma(s)
lbracket(s) == [parse_options EXCEPT !.lbracket = s]
rbracket(s) == [parse_options EXCEPT !.rbracket = s]
comma(s) == [parse_options EXCEPT !.comma = s]

\* to<value_t>(field) for the element types int and bool
to_value(T, s, indet) == IF T = "bool" THEN to_bool(s) ELSE to_int(s, indet)

\* parse_fields splitting at the first character of the marker only
RECURSIVE parse_fields_first_char(_, _, _, _, _, _)
parse_fields_first_char(fields, o, T, first, vec, indet) ==
    LET pos == IF o.comma = <<>> THEN npos
               ELSE find_first_of(fields, {o.comma[1]}, first)
        v == to_value(T, substr(fields, first, size_t(pos - first)), indet)
    IN  IF pos # npos
        THEN IF ~(pos > first) THEN Abort
             ELSE IF v.aborted THEN Abort
             ELSE parse_fields_first_char(fields, o, T, pos + 1, Append(vec, v.value), indet)
        ELSE IF v.aborted THEN Abort
             ELSE Ret(Append(vec, v.value))

\* parse_fields without assert(pos > first): an empty field is converted
RECURSIVE parse_fields_empty_allowed(_, _, _, _, _, _)
parse_fields_empty_allowed(fields, o, T, first, vec, indet) ==
    LET pos == find_first_of(fields, Range(o.comma), first)
        v == to_value(T, substr(fields, first, size_t(pos - first)), indet)
    IN  IF pos # npos
        THEN IF v.aborted THEN Abort
             ELSE parse_fields_empty_allowed(fields, o, T, pos + 1, Append(vec, v.value), indet)
        ELSE IF v.aborted THEN Abort
             ELSE Ret(Append(vec, v.value))

\* parse_fields that drops an empty final field instead of converting it
RECURSIVE parse_fields_drop_empty_last(_, _, _, _, _, _)
parse_fields_drop_empty_last(fields, o, T, first, vec, indet) ==
    LET pos == find_first_of(fields, Range(o.comma), first)
        v == to_value(T, substr(fields, first, size_t(pos - first)), indet)
    IN  IF pos # npos
        THEN IF ~(pos > first) THEN Abort
             ELSE IF v.aborted THEN Abort
             ELSE parse_fields_drop_empty_last(fields, o, T, pos + 1, Append(vec, v.value), indet)
        ELSE IF first >= Len(fields) THEN Ret(vec)
             ELSE IF v.aborted THEN Abort
             ELSE Ret(Append(vec, v.value))

\* the while loop of parse and the statements after it: first is the start of
\* the current field, vec the elements pushed so far
RECURSIVE parse_fields(_, _, _, _, _, _)
parse_fields(fields, o, T, first, vec, indet) ==
    LET pos == find_first_of(fields, Range(o.comma), first)
        v == to_value(T, substr(fields, first, size_t(pos - first)), indet)
    IN  IF pos # npos
        THEN IF ~(pos > first) THEN Abort
             ELSE IF v.aborted THEN Abort
             ELSE parse_fields(fields, o, T, pos + 1, Append(vec, v.value), indet)
        ELSE IF v.aborted THEN Abort
             ELSE Ret(Append(vec, v.value))

\* an assertion that lets an interior of one character pass
interior_spans_or_single(first, last) == first <= last

\* assert(first < last)
interior_spans(first, last) == first < last

\* parse<std::vector<T> >(s, o)
parse(s, o, T, indet) ==
    LET first0 == find_first_not_of(s, space, 0)
        first == IF o.lbracket # <<>>
                 THEN find_first_not_of(s, space, first0 + 1)
                 ELSE first0
        last0 == find_last_not_of(s, space, npos)
        last == IF o.rbracket # <<>>
                THEN find_last_not_of(s, space, size_t(last0 - 1))
                ELSE last0
        fields == substr(s, first, size_t(last - first + 1))
    IN  IF first0 = npos THEN Abort
        ELSE IF o.lbracket # <<>> /\ s[first0 + 1] # o.lbracket[1] THEN Abort
        ELSE IF last0 = npos THEN Abort
        ELSE IF o.rbracket # <<>> /\ s[last0 + 1] # o.rbracket[1] THEN Abort
        ELSE IF ~interior_spans(first, last) THEN Abort
        ELSE parse_fields(fields, o, T, 0, <<>>, indet)

----------------------------------------------------------------------------
(* The calls of conv::parse *)

\* the greatest length of a text handed to conv::parse
MaxParseText == 5

ParseChars == {" ", "[", "]", ",", "1"}

\* the options of the repository's tests, both brackets empty, and no separator
ParseOptions ==
    { parse_options, lbracket(<<>>), rbracket(<<>>),
      comma(<<" ">>), comma(<<"[">>), comma(<<"]">>), comma(<<>>),
      [parse_options EXCEPT !.lbracket = <<>>, !.rbracket = <<>>] }

\* texts and options for a separator marker of several characters
MarkerChars == {"[", "]", ",", ";", "1"}

MarkerOptions == { comma(<<",", ";">>), comma(<<";", ",">>) }

\* the calls of the repository's test (test/conv_test.cc, parse string)
TestCalls ==
    { <<<<"[", "0", ",", "1", ",", "2", "]">>, parse_options>>,
      <<<<"[", "0", ",", " ", "1", ",", " ", "2", "]">>, parse_options>>,
      <<<<" ", " ", "[", "0", ",", "1", ",", "2", "]", " ", " ">>, parse_options>>,
      <<<<"[", "0", " ", "1", " ", "2", "]">>, comma(<<" ">>)>>,
      <<<<" ", " ", "0", ",", "1", ",", "2", "]">>, lbracket(<<>>)>>,
      <<<<"[", "0", ",", "1", ",", "2", " ", " ">>, rbracket(<<>>)>>,
      <<<<"[", "0", "[", "1", "[", "2", "]">>, comma(<<"[">>)>>,
      <<<<"[", "0", "]", "1", "]", "2", "]">>, comma(<<"]">>)>> }

ParseCalls ==
    (TextsOver(ParseChars, MaxParseText) \X ParseOptions)
        \cup (TextsOver(MarkerChars, MaxParseText) \X MarkerOptions)
        \cup TestCalls

ParseInit ==
    /\ \E c \in ParseCalls : str = c[1] /\ opt = c[2]
    /\ val = None
    /\ pc = "ready"
    /\ out = None

ParseInt ==
    /\ pc = "ready"
    /\ \E indet \in Indeterminate : out' = parse(str, opt, "int", indet)
    /\ pc' = "parse_int"
    /\ UNCHANGED <<str, opt, val>>

ParseBool ==
    /\ pc = "ready"
    /\ \E indet \in Indeterminate : out' = parse(str, opt, "bool", indet)
    /\ pc' = "parse_bool"
    /\ UNCHANGED <<str, opt, val>>

ParseNext == ParseInt \/ ParseBool

SpecParse == ParseInit /\ [][ParseNext]_vars

----------------------------------------------------------------------------
(* conv::to<std::string> and the operator<< of the containers *)

\* the printable characters in the order of their codes, from 32 to 126 (the
\* grave accent, which a TLA+ string cannot hold, is written "grave")
Ascii ==
    <<" ", "!", "\"", "#", "$", "%", "&", "'", "(", ")", "*", "+", ",", "-", ".", "/",
      "0", "1", "2", "3", "4", "5", "6", "7", "8", "9", ":", ";", "<", "=", ">", "?",
      "@", "A", "B", "C", "D", "E", "F", "G", "H", "I", "J", "K", "L", "M", "N", "O",
      "P", "Q", "R", "S", "T", "U", "V", "W", "X", "Y", "Z", "[", "\\", "]", "^", "_",
      "grave", "a", "b", "c", "d", "e", "f", "g", "h", "i", "j", "k", "l", "m", "n", "o",
      "p", "q", "r", "s", "t", "u", "v", "w", "x", "y", "z", "{", "|", "}", "~">>

\* the character with the code n, and the code of the character c
CharOf(n) == Ascii[n - 31]
CodeOf(c) == IndexOf(Ascii, c) + 31

\* the types char, signed char and unsigned char
Int8Types == {"char", "schar", "uchar"}

\* out << n for an int n: its decimal digits, after a minus sign if negative
RECURSIVE insert_digits(_)
insert_digits(n) ==
    IF n < 10 THEN <<DecDigits[n + 1]>>
    ELSE insert_digits(n \div 10) \o <<DecDigits[(n % 10) + 1]>>

\* out << n that writes no sign
insert_int_magnitude(n) == IF n < 0 THEN insert_digits(0 - n) ELSE insert_digits(n)

insert_int(n) == IF n < 0 THEN <<"-">> \o insert_digits(0 - n) ELSE insert_digits(n)

\* out << x that writes a bool as true or false, as to<std::string>(bool) does
insert_boolalpha(T, x) ==
    IF T = "int" THEN insert_int(x)
    ELSE IF T = "bool" THEN (IF x THEN <<"t", "r", "u", "e">> ELSE <<"f", "a", "l", "s", "e">>)
    ELSE IF T \in Int8Types THEN <<CharOf(x)>>
    ELSE x

\* out << x for an element x of type T: an int in decimal, a bool as 1 or 0
\* (the stream has no boolalpha), an 8-bit integer as the character with that
\* code, a std::string as it is
insert(T, x) ==
    IF T = "int" THEN insert_int(x)
    ELSE IF T = "bool" THEN (IF x THEN <<"1">> ELSE <<"0">>)
    ELSE IF T \in Int8Types THEN <<CharOf(x)>>
    ELSE x

\* to<std::string>(x) for a scalar x of type T: from_int8 for the 8-bit types,
\* the literals for bool, the text itself for std::string, out << x otherwise
to_string(T, x) ==
    IF T \in Int8Types THEN Ret(insert_int(x))
    ELSE IF T = "bool" THEN Ret(IF x THEN <<"t", "r", "u", "e">> ELSE <<"f", "a", "l", "s", "e">>)
    ELSE IF T = "string" THEN Ret(x)
    ELSE Ret(insert(T, x))

\* operator<< for std::pair
insert_pair(p) ==
    <<"(">> \o insert(p.T1, p.first) \o <<",", " ">> \o insert(p.T2, p.second) \o <<")">>

\* the for loop of operator<< for std::vector, from the element at index i (from 0)
RECURSIVE insert_rest(_, _, _)
insert_rest(T, items, i) ==
    IF i >= Len(items) THEN <<>>
    ELSE <<",", " ">> \o insert(T, items[i + 1]) \o insert_rest(T, items, i + 1)

\* operator<< for std::vector that writes the brackets of an empty vector too
insert_vector_always_bracketed(v) ==
    IF v.items = <<>> THEN <<"[", "]">>
    ELSE <<"[">> \o insert(v.T, v.items[1]) \o insert_rest(v.T, v.items, 1) \o <<"]">>

\* operator<< for std::vector
insert_vector(v) ==
    IF v.items = <<>> THEN <<>>
    ELSE <<"[">> \o insert(v.T, v.items[1]) \o insert_rest(v.T, v.items, 1) \o <<"]">>

\* std::less<K>, the order of the keys of a std::map<K, V>
RECURSIVE less(_, _, _)
less(K, x, y) ==
    IF K = "bool" THEN x = FALSE /\ y = TRUE
    ELSE IF K = "string"
         THEN IF y = <<>> THEN FALSE
              ELSE IF x = <<>> THEN TRUE
              ELSE IF Head(x) # Head(y) THEN CodeOf(Head(x)) < CodeOf(Head(y))
              ELSE less(K, Tail(x), Tail(y))
    ELSE x < y

\* m.begin() and ++iter: the keys of a map, the least first
RECURSIVE map_keys(_, _)
map_keys(K, keys) ==
    IF keys = {} THEN <<>>
    ELSE LET least == CHOOSE k \in keys : \A j \in keys \ {k} : less(K, k, j)
         IN  <<least>> \o map_keys(K, keys \ {least})

\* out << iter->first << ": " << iter->second
insert_entry(m, k) == insert(m.K, k) \o <<":", " ">> \o insert(m.V, m.entries[k])

\* the for loop of operator<< for std::map, over the keys left
RECURSIVE insert_entries(_, _)
insert_entries(m, keys) ==
    IF keys = <<>> THEN <<>>
    ELSE <<",", " ">> \o insert_entry(m, Head(keys)) \o insert_entries(m, Tail(keys))

\* operator<< for std::map
insert_map(m) ==
    LET keys == map_keys(m.K, DOMAIN m.entries)
    IN  IF keys = <<>> THEN <<>>
        ELSE <<"{">> \o insert_entry(m, Head(keys)) \o insert_entries(m, Tail(keys)) \o <<"}">>

\* to<std::string>(const U& value) for a pair, a vector and a map: out << value
to_string_pair(p) == Ret(insert_pair(p))
to_string_vector(v) == Ret(insert_vector(v))
to_string_map(m) == Ret(insert_map(m))

----------------------------------------------------------------------------
(* The calls of conv::to<std::string> *)

\* the greatest number of elements of a vector and of entries of a map
MaxItems == 3

IntValues == {-1, 0, 1, 2, 10, 20}
Int8Values == {49, 65}
StringValues == {<<"a">>, <<"a", "b">>, <<"b">>, <<"c">>}

RenderTypes == {"int", "bool", "string"} \cup Int8Types

ValuesOf(T) ==
    IF T = "int" THEN IntValues
    ELSE IF T = "bool" THEN BOOLEAN
    ELSE IF T \in Int8Types THEN Int8Values
    ELSE StringValues

RECURSIVE ListsOver(_, _)
ListsOver(S, n) ==
    IF n = 0 THEN {<<>>}
    ELSE LET shorter == ListsOver(S, n - 1)
         IN  shorter \cup {Append(l, x) : l \in {u \in shorter : Len(u) = n - 1}, x \in S}

ScalarValues(T) == {[kind |-> "scalar", T |-> T, v |-> x] : x \in ValuesOf(T)}

PairValues(T1, T2) ==
    {[kind |-> "pair", T1 |-> T1, T2 |-> T2, first |-> a, second |-> b] :
        a \in ValuesOf(T1), b \in ValuesOf(T2)}

VectorValues(T) ==
    {[kind |-> "vector", T |-> T, items |-> l] : l \in ListsOver(ValuesOf(T), MaxItems)}

\* the key and value types of the maps of the model
MapTypes ==
    {<<"string", "int">>, <<"int", "int">>, <<"int", "bool">>, <<"bool", "char">>,
     <<"uchar", "string">>, <<"schar", "schar">>}

MapValues(K, V) ==
    UNION {{[kind |-> "map", K |-> K, V |-> V, entries |-> f] : f \in [keys -> ValuesOf(V)]} :
              keys \in {k \in SUBSET ValuesOf(K) : Cardinality(k) <= MaxItems}}

RenderInit ==
    /\ \/ \E T \in RenderTypes : val \in ScalarValues(T)
       \/ \E T1 \in RenderTypes, T2 \in RenderTypes : val \in PairValues(T1, T2)
       \/ \E T \in RenderTypes : val \in VectorValues(T)
       \/ \E t \in MapTypes : val \in MapValues(t[1], t[2])
    /\ str = <<>>
    /\ opt = None
    /\ pc = "ready"
    /\ out = None

ToStringScalar ==
    /\ pc = "ready"
    /\ val.kind = "scalar"
    /\ out' = to_string(val.T, val.v)
    /\ pc' = "to_string"
    /\ UNCHANGED <<str, opt, val>>

ToStringPair ==
    /\ pc = "ready"
    /\ val.kind = "pair"
    /\ out' = to_string_pair(val)
    /\ pc' = "to_string"
    /\ UNCHANGED <<str, opt, val>>

ToStringVector ==
    /\ pc = "ready"
    /\ val.kind = "vector"
    /\ out' = to_string_vector(val)
    /\ pc' = "to_string"
    /\ UNCHANGED <<str, opt, val>>

ToStringMap ==
    /\ pc = "ready"
    /\ val.kind = "map"
    /\ out' = to_string_map(val)
    /\ pc' = "to_string"
    /\ UNCHANGED <<str, opt, val>>

RenderNext == ToStringScalar \/ ToStringPair \/ ToStringVector \/ ToStringMap

SpecRender == RenderInit /\ [][RenderNext]_vars

----------------------------------------------------------------------------
(* What a text denotes, read independently of the code above *)

\* s without its leading and its trailing whitespace
RECURSIVE StripLeft(_)
StripLeft(s) == IF s # <<>> /\ Head(s) \in space THEN StripLeft(Tail(s)) ELSE s

RECURSIVE StripRight(_)
StripRight(s) ==
    IF s # <<>> /\ s[Len(s)] \in space THEN StripRight(SubSeq(s, 1, Len(s) - 1)) ELSE s

Strip(s) == StripRight(StripLeft(s))

AllIn(s, chars) == \A i \in 1..Len(s) : s[i] \in chars

\* 0x followed by at least one hexadecimal digit
IsHexLiteral(l) ==
    /\ Len(l) >= 3
    /\ l[1] = "0"
    /\ l[2] = "x"
    /\ AllIn(SubSeq(l, 3, Len(l)), DigitChars(16))

\* an optional minus sign followed by at least one decimal digit
IsDecLiteral(l) ==
    LET body == IF l # <<>> /\ l[1] = "-" THEN Tail(l) ELSE l
    IN  body # <<>> /\ AllIn(body, DigitChars(10))

IsLiteral(l) == IsHexLiteral(l) \/ IsDecLiteral(l)

RECURSIVE Power(_, _)
Power(b, e) == IF e = 0 THEN 1 ELSE b * Power(b, e - 1)

\* the sum of the digits' values, each times the power of the base of its place
RECURSIVE PlaceSum(_, _)
PlaceSum(digits, base) ==
    IF digits = <<>> THEN 0
    ELSE DigitValue(Head(digits)) * Power(base, Len(digits) - 1)
             + PlaceSum(Tail(digits), base)

\* the value of a literal: base 16 after 0x, base 10 otherwise
LiteralValue(l) ==
    IF Len(l) >= 2 /\ l[1] = "0" /\ l[2] = "x" THEN PlaceSum(SubSeq(l, 3, Len(l)), 16)
    ELSE IF l[1] = "-" THEN 0 - PlaceSum(Tail(l), 10)
    ELSE PlaceSum(l, 10)

\* the value of type signed char, or unsigned char, that n truncates to
Truncated8(n, isSigned) ==
    CHOOSE r \in (IF isSigned THEN -128..127 ELSE 0..255) : (n - r) % 256 = 0

----------------------------------------------------------------------------
(* Claims about conv::to<T> from a text, checked under SpecTo *)

\* C1: for a text made of optional whitespace, a literal and optional whitespace,
\* to<int> returns the value of the literal, read in base 16 when it begins with
\* 0x and in base 10 otherwise; whitespace around it and leading zeros change
\* neither the base nor the value.
C1_ToIntReadsLiteral ==
    (pc = "to_int" /\ IsLiteral(Strip(str))) => out = Ret(LiteralValue(Strip(str)))

C1_Witness ==
    /\ pc = "to_int"
    /\ str = <<" ", "0", "x", "F">>
    /\ out = Ret(15)

\* C2: for a text that is a literal, to<char>, to<signed char> and to<unsigned char>
\* return to<int> of the text truncated to 8 bits (modulo 256, two's complement
\* for the signed type), never the character code of the text, and an
\* out-of-range value is truncated, not reported.
C2_NarrowTruncatesToInt ==
    IsLiteral(Strip(str)) =>
        LET i == to_int(str, 0)
        IN  /\ pc = "to_schar" => out = Ret(Truncated8(i.value, TRUE))
            /\ pc = "to_uchar" => out = Ret(Truncated8(i.value, FALSE))
            /\ pc = "to_char" =>
                   /\ ~out.aborted
                   /\ out.value \in {Truncated8(i.value, TRUE), Truncated8(i.value, FALSE)}
            /\ (pc = "to_schar" /\ str = <<"0", "x", "F", "F">>) => out.value = -1
            /\ (pc = "to_uchar" /\ str = <<"0", "x", "F", "F">>) => out.value = 255
            /\ (pc \in {"to_char", "to_schar", "to_uchar"} /\ str = <<"1">>) => out.value = 1

C2_Witness ==
    /\ pc = "to_schar"
    /\ str = <<"0", "x", "F", "F">>
    /\ out = Ret(-1)

\* C3: to<bool> of a text is false if and only if the text is empty; nothing is
\* trimmed, so whitespace alone, "true" and "false" all give true.
C3_ToBoolFalseIffEmpty ==
    pc = "to_bool" =>
        /\ ~out.aborted
        /\ out.value = FALSE <=> Len(str) = 0
        /\ (Len(str) > 0 /\ AllIn(str, space)) => out.value = TRUE
        /\ str \in {<<"t", "r", "u", "e">>, <<"f", "a", "l", "s", "e">>} => out.value = TRUE

C3_Witness ==
    /\ pc = "to_bool"
    /\ str = <<" ", " ">>
    /\ out = Ret(TRUE)

----------------------------------------------------------------------------
(* The parts of a text handed to parse, read independently of parse *)

\* the text is empty or whitespace alone
Blank(s) == AllIn(s, space)

\* the first non-whitespace character differs from the opening marker's first
OpenMismatch(s, o) ==
    ~Blank(s) /\ o.lbracket # <<>> /\ Strip(s)[1] # o.lbracket[1]

\* the last non-whitespace character differs from the closing marker's first
CloseMismatch(s, o) ==
    ~Blank(s) /\ o.rbracket # <<>> /\ Strip(s)[Len(Strip(s))] # o.rbracket[1]

BracketsMatch(s, o) == ~Blank(s) /\ ~OpenMismatch(s, o) /\ ~CloseMismatch(s, o)

\* what is left of a text whose brackets match, without the configured
\* brackets and the whitespace around and inside them
Interior(s, o) ==
    LET t == Strip(s)
        a == IF o.lbracket # <<>> THEN Tail(t) ELSE t
        b == IF o.rbracket # <<>> /\ a # <<>> THEN SubSeq(a, 1, Len(a) - 1) ELSE a
    IN  Strip(b)

\* the characters parse splits at
Separators(o) == Range(o.comma)

SeparatorCount(s, o) == Cardinality({i \in 1..Len(s) : s[i] \in Separators(o)})

\* a separator at the start, or two separators side by side
HasEmptyInnerField(s, o) ==
    \/ s # <<>> /\ s[1] \in Separators(o)
    \/ \E i \in 1..(Len(s) - 1) : s[i] \in Separators(o) /\ s[i + 1] \in Separators(o)

Parsed == pc \in {"parse_int", "parse_bool"}

----------------------------------------------------------------------------
(* Claims about conv::parse, checked under SpecParse *)

\* C6: parse returns no result, and stops at an assertion, for a text that is
\* empty or whitespace alone, for a text whose first non-whitespace character
\* differs from the first character of a non-empty opening marker or whose last
\* differs from that of a non-empty closing marker, and for a text whose
\* interior begins with a separator or has two separators side by side.
C6_MalformedAborts ==
    Parsed =>
        /\ Blank(str) => out = Abort
        /\ OpenMismatch(str, opt) => out = Abort
        /\ CloseMismatch(str, opt) => out = Abort
        /\ (BracketsMatch(str, opt) /\ HasEmptyInnerField(Interior(str, opt), opt))
               => out = Abort

C6_Witness ==
    /\ pc = "parse_bool"
    /\ opt = parse_options
    /\ str = <<"[", "1", ",", ",", "]">>
    /\ out = Abort

\* the texts of the integer fields of a well-formed input, and the lists of them
FieldTexts == {<<"1">>, <<"1", "1">>}

FieldLists ==
    {<<f>> : f \in FieldTexts} \cup {<<f, g>> : f, g \in FieldTexts}
        \cup {<< <<"0">>, <<"1">>, <<"2">> >>}

\* no whitespace, or some
Pads == {<<>>, <<" ">>, <<" ", " ">>}

\* the fields, each between pad, joined by the separator character
RECURSIVE JoinFields(_, _, _)
JoinFields(fs, sep, pad) ==
    IF Len(fs) = 1 THEN pad \o fs[1] \o pad
    ELSE pad \o fs[1] \o pad \o <<sep>> \o JoinFields(Tail(fs), sep, pad)

\* the well-formed inputs for the options o, each with its fields' values:
\* whitespace, the opening marker if any, the fields separated by the
\* separator character, the closing marker if any, whitespace; whitespace
\* around a field only when the separator is no whitespace
WellFormedInputs(o) ==
    { [ text |-> lead \o o.lbracket \o inner
                     \o (IF o.comma = <<>> THEN pad \o fs[1] \o pad
                         ELSE JoinFields(fs, o.comma[1], pad))
                     \o inner \o o.rbracket \o trail,
        fields |-> [i \in 1..Len(fs) |-> LiteralValue(fs[i])] ] :
        lead \in Pads, trail \in Pads, inner \in Pads,
        pad \in {q \in Pads : q = <<>> \/ o.comma = <<>> \/ o.comma[1] \notin space},
        fs \in {l \in FieldLists : o.comma # <<>> \/ Len(l) = 1} }

\* C5: for every well-formed input of parse<std::vector<int> > the result is the
\* sequence of the fields' values in their order, one element per field, also
\* with whitespace around the brackets or the fields, with a separator that is
\* a space, "[" or "]", and with a bracket marker configured empty.
C5_Counterexample ==
    pc = "parse_int" =>
        \A w \in WellFormedInputs(opt) : w.text = str => out = Ret(w.fields)

\* the options with the separator marker cut to its first character
FirstCharOnly(o) == [o EXCEPT !.comma = <<o.comma[1]>>]

\* the text with every character of the marker replaced by the marker's first
Unified(s, o) ==
    [i \in 1..Len(s) |-> IF s[i] \in Range(o.comma) THEN o.comma[1] ELSE s[i]]

\* the value type of the call made
ValueType == IF pc = "parse_bool" THEN "bool" ELSE "int"

EndIndexWraps(s, o) ==
    /\ o.lbracket = <<>>
    /\ o.rbracket # <<>>
    /\ s # <<>>
    /\ s[1] \in space

EndsWithSeparator(s, o) ==
    /\ s # <<>>
    /\ s[Len(s)] \in Separators(o)
    /\ ~HasEmptyInnerField(s, o)

\* C9 as stated: for an interior that ends with the separator, with element
\* type int or bool, parse returns a result of length separators plus one.
C9_Counterexample ==
    (Parsed /\ BracketsMatch(str, opt) /\ EndsWithSeparator(Interior(str, opt), opt)) =>
        /\ ~out.aborted
        /\ Len(out.value) = SeparatorCount(Interior(str, opt), opt) + 1

\* C9, amended: the final field is always handed to the conversion, also when
\* it is empty. For an interior that ends with the separator, with element type
\* bool the result has length separators plus one and false as its last
\* element; with element type int the conversion of the empty field stops at
\* the assertion of to<int> and parse returns no result.
C9_EmptyFinalFieldIsConverted ==
    (Parsed /\ BracketsMatch(str, opt) /\ EndsWithSeparator(Interior(str, opt), opt)) =>
        /\ pc = "parse_bool" =>
               /\ ~out.aborted
               /\ Len(out.value) = SeparatorCount(Interior(str, opt), opt) + 1
               /\ out.value[Len(out.value)] = FALSE
               /\ \A i \in 1..(Len(out.value) - 1) : out.value[i] = TRUE
        /\ pc = "parse_int" => out = Abort

C9_Witness ==
    /\ pc = "parse_bool"
    /\ opt = parse_options
    /\ str = <<"[", "1", ",", "]">>
    /\ out = Ret(<<TRUE, FALSE>>)

----------------------------------------------------------------------------
(* Claims about conv::to<std::string>, checked under SpecRender *)

\* the texts joined by sep, built from the last one backwards
RECURSIVE Joined(_, _)
Joined(texts, sep) ==
    IF texts = <<>> THEN <<>>
    ELSE IF Len(texts) = 1 THEN texts[1]
    ELSE Joined(SubSeq(texts, 1, Len(texts) - 1), sep) \o sep \o texts[Len(texts)]

\* the values of each type in ascending order
Ascending(T) ==
    IF T = "int" THEN <<-1, 0, 1, 2, 10, 20>>
    ELSE IF T = "bool" THEN <<FALSE, TRUE>>
    ELSE IF T \in Int8Types THEN <<49, 65>>
    ELSE << <<"a">>, <<"a", "b">>, <<"b">>, <<"c">> >>

\* the keys of a map in ascending order
RECURSIVE Pick(_, _)
Pick(seq, keys) ==
    IF seq = <<>> THEN <<>>
    ELSE (IF Head(seq) \in keys THEN <<Head(seq)>> ELSE <<>>) \o Pick(Tail(seq), keys)

AscendingKeys(m) == Pick(Ascending(m.K), DOMAIN m.entries)

\* a container's text, with Text(T, x) the text of a member x of type T
PairText(p, Text(_, _)) ==
    <<"(">> \o Text(p.T1, p.first) \o <<",", " ">> \o Text(p.T2, p.second) \o <<")">>

VectorText(v, Text(_, _)) ==
    <<"[">> \o Joined([i \in 1..Len(v.items) |-> Text(v.T, v.items[i])], <<",", " ">>)
        \o <<"]">>

MapText(m, Text(_, _)) ==
    LET keys == AscendingKeys(m)
    IN  <<"{">> \o Joined([i \in 1..Len(keys) |->
                              Text(m.K, keys[i]) \o <<":", " ">> \o Text(m.V, m.entries[keys[i]])],
                          <<",", " ">>)
            \o <<"}">>

Rendered == pc = "to_string"

\* C4: to<std::string> of a container adds nothing and drops nothing: a pair is
\* "(a, b)", a sequence of one or more elements is "[" + the elements in index
\* order joined by ", " + "]", a mapping of one or more entries is "{" + its
\* "k: v" entries in ascending key order joined by ", " + "}", and an empty
\* sequence and an empty mapping are the empty text.
C4_ContainerText ==
    Rendered =>
        /\ val.kind = "pair" => out = Ret(PairText(val, insert))
        /\ (val.kind = "vector" /\ val.items # <<>>) => out = Ret(VectorText(val, insert))
        /\ (val.kind = "vector" /\ val.items = <<>>) => out = Ret(<<>>)
        /\ (val.kind = "map" /\ DOMAIN val.entries # {}) => out = Ret(MapText(val, insert))
        /\ (val.kind = "map" /\ DOMAIN val.entries = {}) => out = Ret(<<>>)
        /\ (val.kind = "pair" /\ val.T1 = "int" /\ val.T2 = "int"
                /\ val.first = 10 /\ val.second = 20)
               => out.value = <<"(", "1", "0", ",", " ", "2", "0", ")">>
        /\ (val.kind = "vector" /\ val.T = "int" /\ val.items = <<0, 1, 2>>)
               => out.value = <<"[", "0", ",", " ", "1", ",", " ", "2", "]">>
        /\ (val.kind = "map" /\ val.K = "string" /\ val.V = "int"
                /\ DOMAIN val.entries = {<<"a">>, <<"b">>, <<"c">>}
                /\ val.entries[<<"a">>] = 0 /\ val.entries[<<"b">>] = 1
                /\ val.entries[<<"c">>] = 2)
               => out.value = <<"{", "a", ":", " ", "0", ",", " ", "b", ":", " ", "1", ",", " ",
                                "c", ":", " ", "2", "}">>

C4_Witness ==
    /\ Rendered
    /\ val.kind = "map"
    /\ val.K = "int"
    /\ val.V = "int"
    /\ DOMAIN val.entries = {20, -1, 2}
    /\ val.entries[20] = 0 /\ val.entries[-1] = 1 /\ val.entries[2] = 2
    /\ out = Ret(<<"{", "-", "1", ":", " ", "1", ",", " ", "2", ":", " ", "2", ",", " ",
                   "2", "0", ":", " ", "0", "}">>)

\* the text to<std::string> gives a member alone
AloneText(T, x) == to_string(T, x).value

StreamedText(T, x) ==
    IF T \in {"int", "string"} THEN AloneText(T, x)
    ELSE IF T = "bool" THEN (IF x THEN <<"1">> ELSE <<"0">>)
    ELSE <<CharOf(x)>>

----------------------------------------------------------------------------
(* conv::to<std::map<K1, V1> >(const std::map<K2, V2>&) *)

\* to<T>(x) for a value x of type U: the constructor from std::string if U is
\* std::string, to<std::string> if T is, and otherwise the template constructor,
\* a static_cast (through char for every 8-bit T, through U for bool)
convert(T, U, x, indet, charIsSigned) ==
    IF U = "string"
    THEN IF T = "string" THEN Ret(x)
         ELSE IF T = "bool" THEN to_bool(x)
         ELSE IF T = "int" THEN to_int(x, indet)
         ELSE IF T = "schar" THEN to_schar(x, indet)
         ELSE IF T = "uchar" THEN to_uchar(x, indet)
         ELSE to_char(x, indet, charIsSigned)
    ELSE IF T = "string" THEN to_string(U, x)
    ELSE LET n == IF U = "bool" THEN (IF x THEN 1 ELSE 0) ELSE x
         IN  IF T = "bool" THEN Ret(n # 0)
             ELSE IF T = "int" THEN Ret(n)
             ELSE IF T = "schar" THEN Ret(static_cast_int8(n, TRUE))
             ELSE IF T = "uchar" THEN Ret(static_cast_int8(n, FALSE))
             ELSE Ret(static_cast_int8(n, charIsSigned))

\* an insertion that keeps the value a key already has
map_insert(result, k, v) ==
    [x \in DOMAIN result \cup {k} |-> IF x \in DOMAIN result THEN result[x] ELSE v]

\* std::map<K1, V1>::operator[](k) = v
map_assign(result, k, v) ==
    [x \in DOMAIN result \cup {k} |-> IF x = k THEN v ELSE result[x]]

\* the for loop of the constructor, over the source keys left
RECURSIVE to_map_entries(_, _, _, _, _, _, _)
to_map_entries(K1, V1, m, keys, result, indet, charIsSigned) ==
    IF keys = <<>> THEN Ret(result)
    ELSE LET k == convert(K1, m.K, Head(keys), indet, charIsSigned)
             v == convert(V1, m.V, m.entries[Head(keys)], indet, charIsSigned)
         IN  IF k.aborted \/ v.aborted THEN Abort
             ELSE to_map_entries(K1, V1, m, Tail(keys),
                                 map_assign(result, k.value, v.value), indet, charIsSigned)

\* to<std::map<K1, V1> >(m)
to_map(K1, V1, m, indet, charIsSigned) ==
    to_map_entries(K1, V1, m, map_keys(m.K, DOMAIN m.entries), <<>>, indet, charIsSigned)

----------------------------------------------------------------------------
(* The calls of conv::to<std::map<K1, V1> > *)

\* the greatest number of entries of a source map
MaxEntries == 3

\* the keys and the values of the source maps, by type
SourceKeys(K) ==
    IF K = "int" THEN {-1, 0, 1, 255, 257}
    ELSE IF K = "bool" THEN BOOLEAN
    ELSE {<<" ", "1">>, <<"0", "x", "1">>, <<"1">>, <<"2">>, <<" ">>}

SourceValues(V) ==
    IF V = "int" THEN {0, 10, 20}
    ELSE IF V = "bool" THEN BOOLEAN
    ELSE {<<>>, <<"1">>, <<"2">>}

\* the source types K2, V2 and the target types K1, V1 of the calls
ConvertTypes ==
    {[K |-> "int", V |-> "int", K1 |-> k1, V1 |-> "int"] :
         k1 \in {"int", "char", "schar", "uchar", "bool", "string"}}
    \cup {[K |-> "int", V |-> "int", K1 |-> "schar", V1 |-> v1] : v1 \in {"bool", "string"}}
    \cup {[K |-> "string", V |-> "string", K1 |-> k1, V1 |-> v1] :
              k1 \in {"int", "uchar", "bool"}, v1 \in {"int", "bool", "string"}}
    \cup {[K |-> "bool", V |-> "int", K1 |-> k1, V1 |-> "bool"] : k1 \in {"int", "string"}}

SourceMaps(t) ==
    UNION {{[kind |-> "convert", K |-> t.K, V |-> t.V, K1 |-> t.K1, V1 |-> t.V1,
             entries |-> f] : f \in [keys -> SourceValues(t.V)]} :
              keys \in {k \in SUBSET SourceKeys(t.K) : Cardinality(k) <= MaxEntries}}

ConvertInit ==
    /\ \E t \in ConvertTypes : val \in SourceMaps(t)
    /\ str = <<>>
    /\ opt = None
    /\ pc = "ready"
    /\ out = None

ToMap ==
    /\ pc = "ready"
    /\ val.kind = "convert"
    /\ \E indet \in Indeterminate, charIsSigned \in BOOLEAN :
           out' = to_map(val.K1, val.V1, val, indet, charIsSigned)
    /\ pc' = "to_map"
    /\ UNCHANGED <<str, opt, val>>

ConvertNext == ToMap

SpecConvert == ConvertInit /\ [][ConvertNext]_vars

----------------------------------------------------------------------------
(* Claims about conv::to<std::map<K1, V1> >, checked under SpecConvert *)

\* the source keys of each type in ascending order
AscendingSources(K) ==
    IF K = "int" THEN <<-1, 0, 1, 255, 257>>
    ELSE IF K = "bool" THEN <<FALSE, TRUE>>
    ELSE << <<" ">>, <<" ", "1">>, <<"0", "x", "1">>, <<"1">>, <<"2">> >>

\* the greatest of the source keys S of type K
Greatest(K, S) ==
    LET order == AscendingSources(K)
        place(k) == CHOOSE i \in 1..Len(order) : order[i] = k
    IN  CHOOSE k \in S : \A j \in S : place(j) <= place(k)

\* the result of converting the map m on its own reading: every key and value
\* converted alone, each target key holding the value of its greatest source
MapConverted(m, indet, charIsSigned) ==
    LET key(k) == convert(m.K1, m.K, k, indet, charIsSigned)
        value(k) == convert(m.V1, m.V, m.entries[k], indet, charIsSigned)
        sources == DOMAIN m.entries
    IN  IF \E k \in sources : key(k).aborted \/ value(k).aborted THEN Abort
        ELSE LET targets == {key(k).value : k \in sources}
                 winner(t) == Greatest(m.K, {k \in sources : key(k).value = t})
             IN  Ret([t \in targets |-> value(winner(t)).value])

\* C11: to<std::map<K1, V1> >(m) converts every key and every value alone and
\* goes through the source entries in ascending key order: its keys are
\* exactly the converted source keys, and a key that several source keys
\* convert to holds the converted value of the greatest of them. It returns
\* no map exactly when the conversion of some key or value returns nothing.
C11_GreatestSourceKeyWins ==
    pc = "to_map" =>
        /\ \E indet \in Indeterminate, charIsSigned \in BOOLEAN :
               out = MapConverted(val, indet, charIsSigned)
        /\ (/\ val.K = "int" /\ val.V = "int" /\ val.K1 = "schar" /\ val.V1 = "int"
            /\ DOMAIN val.entries = {-1, 1, 257}
            /\ val.entries[-1] = 0 /\ val.entries[1] = 10 /\ val.entries[257] = 20)
               => (DOMAIN out.value = {-1, 1} /\ out.value[-1] = 0 /\ out.value[1] = 20)

C11_Witness ==
    /\ pc = "to_map"
    /\ val.K = "int" /\ val.V = "int" /\ val.K1 = "uchar" /\ val.V1 = "int"
    /\ DOMAIN val.entries = {-1, 1, 255}
    /\ val.entries[-1] = 10 /\ val.entries[1] = 0 /\ val.entries[255] = 20
    /\ ~out.aborted
    /\ DOMAIN out.value = {1, 255}
    /\ out.value[1] = 0
    /\ out.value[255] = 20

----------------------------------------------------------------------------
(* The calls of conv::to<T> and of conv::parse together *)

TextInit == ToInit \/ ParseInit

\* a call of to<T> has a text alone, a call of parse a text and options
TextNext ==
    \/ opt = None /\ ToNext
    \/ opt # None /\ ParseNext

SpecText == TextInit /\ [][TextNext]_vars

----------------------------------------------------------------------------
(* Claims about whitespace in a number's text, checked under SpecText *)

\* a whitespace character lies between the first and the last other character
HasInnerSpace(s) == \E i \in 1..Len(Strip(s)) : Strip(s)[i] \in space

\* nothing in the text can be read as a number: it is empty, whitespace alone,
\* or whitespace parts it
Unreadable(s) == s = <<>> \/ Blank(s) \/ HasInnerSpace(s)

\* what is left of a text whose brackets match without the configured brackets,
\* the whitespace inside them kept
RawInterior(s, o) ==
    LET t == Strip(s)
        a == IF o.lbracket # <<>> THEN Tail(t) ELSE t
    IN  IF o.rbracket # <<>> /\ a # <<>> THEN SubSeq(a, 1, Len(a) - 1) ELSE a

\* the fields of an interior: its parts between the separators
RECURSIVE FieldsOf(_, _, _)
FieldsOf(s, seps, field) ==
    IF s = <<>> THEN <<field>>
    ELSE IF Head(s) \in seps THEN <<field>> \o FieldsOf(Tail(s), seps, <<>>)
    ELSE FieldsOf(Tail(s), seps, Append(field, Head(s)))

\* some field is whitespace alone or has whitespace between other characters
HasSpacedField(s, o) ==
    LET fields == FieldsOf(RawInterior(s, o), Separators(o), <<>>)
    IN  \E i \in 1..Len(fields) :
            (fields[i] # <<>> /\ Blank(fields[i])) \/ HasInnerSpace(fields[i])

\* C12: to<int>, to<char>, to<signed char> and to<unsigned char> of a text
\* return no value, and stop at an assertion, when the text is empty, is
\* whitespace alone, or has a whitespace character between its first and last
\* non-whitespace characters, and only then; and parse with element type int
\* stops at an assertion when some field of a text whose brackets match is
\* whitespace alone or has whitespace between other characters.
C12_SpacedNumberAborts ==
    /\ pc \in {"to_int", "to_char", "to_schar", "to_uchar"} =>
           (out = Abort <=> Unreadable(str))
    /\ (pc = "parse_int" /\ BracketsMatch(str, opt) /\ HasSpacedField(str, opt)) =>
           out = Abort

C12_Witness ==
    /\ pc = "parse_int"
    /\ opt = parse_options
    /\ str = <<"[", "1", " ", "1", "]">>
    /\ out = Abort

----------------------------------------------------------------------------
(* conv::parse<std::vector<int> >(conv::to<std::string>(v)) *)

\* the greatest number of elements of v
MaxRound == 3

RoundValues == {-120, -1, 0, 5, 10, 30000}

RoundInit ==
    /\ val \in {[kind |-> "vector", T |-> "int", items |-> l] :
                   l \in ListsOver(RoundValues, MaxRound)}
    /\ str = <<>>
    /\ opt = parse_options
    /\ pc = "ready"
    /\ out = None

\* the inner call, conv::to<std::string>(v)
RoundRender ==
    /\ pc = "ready"
    /\ str' = to_string_vector(val).value
    /\ pc' = "rendered"
    /\ UNCHANGED <<opt, val, out>>

\* the outer call, conv::parse<std::vector<int> > of the text rendered
RoundParse ==
    /\ pc = "rendered"
    /\ \E indet \in Indeterminate : out' = parse(str, opt, "int", indet)
    /\ pc' = "parsed"
    /\ UNCHANGED <<str, opt, val>>

RoundNext == RoundRender \/ RoundParse

SpecRound == RoundInit /\ [][RoundNext]_vars

\* C13: for a vector v of two or more ints, negative ones included, parse with
\* the default options of the text to<std::string> gives v stops at no
\* assertion and returns v: the same elements in the same order.
C13_RoundTrip ==
    (pc = "parsed" /\ Len(val.items) >= 2) => out = Ret(val.items)

C13_Witness ==
    /\ pc = "parsed"
    /\ val.items = <<-120, 0, -1>>
    /\ str = <<"[", "-", "1", "2", "0", ",", " ", "0", ",", " ", "-", "1", "]">>
    /\ out = Ret(<<-120, 0, -1>>)

====
